---- MODULE Spec2Model ----
(***************************************************************************)
(* State-machine model of kirana_data_generator.py: the calendar filter    *)
(* generate_dates, the three record generators generate_products,          *)
(* generate_transactions and generate_expenses, and the orchestrator main. *)
(*                                                                         *)
(* Dates are proleptic Gregorian ordinals (datetime.toordinal, 1 Jan 0001  *)
(* is 1); money is held in paise (hundredths), so a two-decimal amount is  *)
(* an integer.  The module `random` is a deterministic generator whose     *)
(* state is seeded arbitrarily: the model keeps its state in rng, draws    *)
(* the seed in Init and advances the state once per call.                  *)
(***************************************************************************)
EXTENDS Integers, Sequences, FiniteSets, TLC

VARIABLES
    entry,          \* the function called from outside: one of Entries
    main_pc,        \* position of main ("none" when main is not running)
    fn,             \* the generator function that is executing, or "idle"
    status,         \* of fn: "idle", "running", "returned" or "raised"
    start_date,     \* arguments of generate_transactions / generate_expenses
    end_date,
    num_products,   \* argument of generate_products
    current_date,   \* generate_dates: its local current_date
    body_pc,        \* position of the for-loop that consumes generate_dates
    date,           \* the loop variable `date`
    yielded,        \* every date generate_dates has yielded in this call
    products,       \* the catalog (list of product records)
    transactions,   \* generate_transactions: its list `transactions`
    expenses,       \* generate_expenses: its list `expenses`
    sno,            \* the running S.No of the executing generator
    i,              \* generate_products: loop index
    remaining,      \* generate_transactions: iterations left of the inner loop
    cat,            \* generate_expenses: index into expense_categories
    rng,            \* state of the random module
    dir_exists,     \* main: whether output_dir exists
    files,          \* main: the artifacts under output_dir
    fp_up,          \* whether a float product at an exact half rounds up
    calc            \* the price computation checked on its own (SpecPrice)

vars == <<entry, main_pc, fn, status, start_date, end_date, num_products,
          current_date, body_pc, date, yielded, products, transactions,
          expenses, sno, i, remaining, cat, rng, dir_exists, files, fp_up,
          calc>>

---------------------------------------------------------------------------
(* Bounds of the model *)

\* the short windows end at most MaxSpan days after they start
MaxSpan == 9
\* seeds of the random module are 0..MaxSeed
MaxSeed == 1
\* generate_products called on its own gets num_products in 0..MaxProducts
MaxProducts == 3
\* the daily transaction count range, scaled down from (80, 120)
DailyMin == 1
DailyMax == 2
\* the price computation is checked for MRPs of MrpBase..MrpBase+MrpSpan paise
MrpSpan == 12

---------------------------------------------------------------------------
(* The calendar: datetime(y, m, d), .day, .weekday(), strftime *)

Years == 2023 .. 2026

IsLeap(y) == (y % 4 = 0) /\ ((y % 100 # 0) \/ (y % 400 = 0))

DaysInMonth(y, m) ==
    IF m = 2 THEN (IF IsLeap(y) THEN 29 ELSE 28)
    ELSE IF m \in {4, 6, 9, 11} THEN 30 ELSE 31

DaysBeforeYear(y) ==
    (y - 1) * 365 + ((y - 1) \div 4) - ((y - 1) \div 100) + ((y - 1) \div 400)

RECURSIVE DaysBeforeMonth(_, _)
DaysBeforeMonth(y, m) ==
    IF m = 1 THEN 0 ELSE DaysBeforeMonth(y, m - 1) + DaysInMonth(y, m - 1)

\* datetime(y, m, d), at midnight, as its ordinal
Datetime(y, m, d) == DaysBeforeYear(y) + DaysBeforeMonth(y, m) + d

YearOf(o) ==
    CHOOSE y \in Years : DaysBeforeYear(y) < o /\ o <= DaysBeforeYear(y + 1)

MonthOf(o) ==
    LET y == YearOf(o)
    IN  CHOOSE m \in 1 .. 12 :
            /\ Datetime(y, m, 1) <= o
            /\ o < Datetime(y, m, 1) + DaysInMonth(y, m)

\* date.day
DayOf(o) == o - Datetime(YearOf(o), MonthOf(o), 1) + 1

\* date.weekday(): Monday is 0, Sunday is 6
Weekday(o) == (o + 6) % 7

\* variant: the format '%m-%d-%Y'
StrftimeMonthFirst(o) == <<MonthOf(o), DayOf(o), YearOf(o)>>

\* date.strftime('%d-%m-%Y'): the three fields of the text, in its order
Strftime(o) == <<DayOf(o), MonthOf(o), YearOf(o)>>

---------------------------------------------------------------------------
(* generate_dates *)

holidays ==
    { Datetime(2024, 1, 26), Datetime(2024, 3, 25), Datetime(2024, 8, 15),
      Datetime(2024, 10, 2), Datetime(2024, 10, 12), Datetime(2024, 11, 1) }

\* the condition of the while loop
InRange(d, last) == d <= last

\* variant: the weekday test off by one, so that Sunday passes
IsBusinessDayOffByOne(d) == Weekday(d) <= 6 /\ d \notin holidays

\* the condition under which the loop yields current_date
IsBusinessDay(d) == Weekday(d) < 6 /\ d \notin holidays

---------------------------------------------------------------------------
(* The random module and the name facility *)

\* one step of the generator's state
RngNext(r) == (r * 25173 + 13849) % 65536

\* the state after k calls
RECURSIVE RngAt(_, _)
RngAt(r, k) == IF k = 0 THEN r ELSE RngAt(RngNext(r), k - 1)

\* random.choice(seq)
Choice(seq, r) == seq[(r % Len(seq)) + 1]

\* random.randint(a, b)
Randint(a, b, r) == a + (r % (b - a + 1))

\* round(random.uniform(lo, hi), 2), in paise
UniformRounded(lo, hi, r) == lo * 100 + (r % ((hi - lo) * 100 + 1))

\* random.choices(['Walk-in', 'Phone Order', 'Delivery'], weights=[0.7, 0.2, 0.1])[0]
WeightedType(r) ==
    LET u == r % 10
    IN  IF u < 7 THEN "Walk-in" ELSE IF u < 9 THEN "Phone Order" ELSE "Delivery"

\* fake.time_object().strftime('%H:%M'): hour and minute
FakeTime(r) == <<(r % 1440) \div 60, (r % 1440) % 60>>

\* fake.company().split()[0]: a brand token
Brands == <<"Tata", "Amul">>

---------------------------------------------------------------------------
(* Configuration *)

NUM_PRODUCTS == 100

\* DAILY_TRANSACTIONS_RANGE, with the scaled-down ends
DAILY_TRANSACTIONS_RANGE == <<DailyMin, DailyMax>>

---------------------------------------------------------------------------
(* generate_products *)

categories ==
    << [name |-> "Staples", items |-> <<"Rice", "Wheat Flour", "Dal", "Salt", "Sugar">>],
       [name |-> "Snacks", items |-> <<"Biscuits", "Chips", "Chocolates", "Namkeen">>],
       [name |-> "Beverages", items |-> <<"Tea", "Coffee", "Juice", "Soft Drinks">>],
       [name |-> "Personal Care", items |-> <<"Soap", "Shampoo", "Toothpaste", "Detergent">>],
       [name |-> "Groceries", items |-> <<"Oil", "Spices", "Pulses", "Masala">>] >>

\* the record appended in iteration idx (0-based), drawn from state r
ProductRecord(idx, r) ==
    LET c == Choice(categories, RngAt(r, 1))
    IN  [ S_No            |-> idx + 1,
          product_name    |-> <<Choice(Brands, RngAt(r, 3)), Choice(c.items, RngAt(r, 2))>>,
          category        |-> c.name,
          mrp             |-> UniformRounded(10, 500, RngAt(r, 4)),
          cost_price      |-> UniformRounded(5, 400, RngAt(r, 5)),
          shelf_life_days |-> Randint(30, 720, RngAt(r, 6)) ]

---------------------------------------------------------------------------
(* generate_transactions: the fields of a record *)

\* the list random.choice draws the discount from, in percent
Discounts == <<0, 0, 0, 5, 10>>

PaymentModes == <<"Cash", "UPI", "Credit">>

\* round(x, 2) of the float x whose exact value is n / 10000 (n in
\* ten-thousandths), in paise.  The float product is within 1e-12 of n/10000,
\* so the result is the nearest paise; when n/10000 lies exactly half way the
\* float error decides, and both neighbours are possible.
Round2(n) ==
    IF n % 100 = 50 THEN {n \div 100, n \div 100 + 1}
    ELSE {(n + 50) \div 100}

\* 'unit_price': round(mrp * (1 - discount), 2)
UnitPrice(mrp, discount) == Round2(mrp * (100 - discount))

\* 'total_amount': round(mrp * qty * (1 - discount), 2)
TotalAmount(mrp, qty, discount) == Round2(mrp * qty * (100 - discount))

\* the pairs <<unit_price, total_amount>> one record can carry: with qty = 1
\* the two float expressions are the same number and round the same way
PriceFields(mrp, qty, discount) ==
    { p \in UnitPrice(mrp, discount) \X TotalAmount(mrp, qty, discount) :
        (qty = 1) => (p[1] = p[2]) }

\* the amount one run produces: within a run the float error at a half is
\* taken to fall the same way every time (fp_up)
Rounded(outcomes, up) ==
    CHOOSE x \in outcomes :
        \A y \in outcomes : IF up THEN y <= x ELSE x <= y

\* products[products['product_name'] == product].iloc[0]: the first match
ProductData(catalog, name) ==
    catalog[CHOOSE j \in 1 .. Len(catalog) :
                /\ catalog[j].product_name = name
                /\ \A k \in 1 .. (j - 1) : catalog[k].product_name # name]

\* int(base_transactions * multiplier): 1.3 on Saturday (Sunday is never yielded)
DailyTransactions(d, base) ==
    IF Weekday(d) >= 5 THEN (base * 13) \div 10 ELSE base

---------------------------------------------------------------------------
(* generate_expenses: the table of categories, in its order *)

expense_categories ==
    << [category |-> "Rent", frequency |-> "monthly", lo |-> 15000, hi |-> 20000],
       [category |-> "Electricity", frequency |-> "monthly", lo |-> 3000, hi |-> 5000],
       [category |-> "Water", frequency |-> "monthly", lo |-> 500, hi |-> 800],
       [category |-> "Staff Salary", frequency |-> "monthly", lo |-> 8000, hi |-> 12000],
       [category |-> "Transportation", frequency |-> "daily", lo |-> 100, hi |-> 300],
       [category |-> "Cleaning", frequency |-> "daily", lo |-> 50, hi |-> 100],
       [category |-> "Maintenance", frequency |-> "weekly", lo |-> 200, hi |-> 500],
       [category |-> "Internet & Phone", frequency |-> "monthly", lo |-> 1000, hi |-> 1500],
       [category |-> "Packaging Material", frequency |-> "weekly", lo |-> 500, hi |-> 1000],
       [category |-> "Miscellaneous", frequency |-> "daily", lo |-> 100, hi |-> 300] >>

\* variant: the day of the month taken as zero-based
ShouldRecordZeroBased(frequency, d) ==
    \/ frequency = "daily"
    \/ (frequency = "weekly" /\ Weekday(d) = 0)
    \/ (frequency = "monthly" /\ DayOf(d) = 0)

\* should_record
ShouldRecord(frequency, d) ==
    \/ frequency = "daily"
    \/ (frequency = "weekly" /\ Weekday(d) = 0)
    \/ (frequency = "monthly" /\ DayOf(d) = 1)

\* the record appended for category c on day d
ExpenseRecord(n, d, c, r) ==
    [ S_No      |-> n,
      date      |-> Strftime(d),
      category  |-> c.category,
      amount    |-> UniformRounded(c.lo, c.hi, r),
      frequency |-> c.frequency,
      notes     |-> <<"Regular", c.frequency, c.category, "expense">> ]

---------------------------------------------------------------------------
(* Initial states: one call of one of the four functions *)

\* main's window
DefaultStart == Datetime(2024, 1, 1)
DefaultEnd == Datetime(2024, 3, 31)

\* first days of the short windows: around New Year, Republic Day, Holi,
\* 1 September (a Sunday) and 1 November (a holiday)
StartDates ==
    { Datetime(2024, 1, 1), Datetime(2024, 1, 23), Datetime(2024, 3, 21),
      Datetime(2024, 8, 29), Datetime(2024, 10, 30) }

ShortWindows ==
    UNION { { <<s, e>> : e \in (s - 1) .. (s + MaxSpan) } : s \in StartDates }

\* the default window and the whole of September 2024
LongWindows ==
    { <<DefaultStart, DefaultEnd>>,
      <<Datetime(2024, 9, 1), Datetime(2024, 9, 30)>> }

Windows == ShortWindows \cup LongWindows

Seeds == 0 .. MaxSeed

SampleProduct(n, brand, item, category, mrp) ==
    [ S_No |-> n, product_name |-> <<brand, item>>, category |-> category,
      mrp |-> mrp, cost_price |-> 900, shelf_life_days |-> 30 ]

\* catalogs handed to generate_transactions: empty, one product, two products
\* of one name (the lookup takes the first), two products of different names
SampleCatalogs ==
    { <<>>,
      <<SampleProduct(1, "Tata", "Salt", "Staples", 1005)>>,
      <<SampleProduct(1, "Tata", "Tea", "Beverages", 1010),
        SampleProduct(2, "Tata", "Tea", "Beverages", 49999)>>,
      <<SampleProduct(1, "Amul", "Oil", "Groceries", 50000),
        SampleProduct(2, "Tata", "Soap", "Personal Care", 1000)>> }

NoFiles ==
    [ f \in {"products.csv", "transactions.csv", "expenses.csv"} |->
        [state |-> "absent", rows |-> <<>>] ]

NoCalc ==
    [ state |-> "unused", mrp |-> 0, quantity |-> 0, discount |-> 0,
      unit_price |-> 0, total_amount |-> 0 ]

\* what every initial state shares
InitLocals ==
    /\ date = 0
    /\ yielded = <<>>
    /\ transactions = <<>>
    /\ expenses = <<>>
    /\ sno = 1
    /\ i = 0
    /\ remaining = 0
    /\ cat = 1
    /\ dir_exists = FALSE
    /\ files = NoFiles

InitProducts ==
    /\ entry = "generate_products"
    /\ main_pc = "none"
    /\ fn = "products"
    /\ status = "running"
    /\ num_products \in 0 .. MaxProducts
    /\ start_date = 0 /\ end_date = 0 /\ current_date = 0
    /\ body_pc = "none"
    /\ products = <<>>

InitTransactions ==
    /\ entry = "generate_transactions"
    /\ main_pc = "none"
    /\ fn = "transactions"
    /\ status = "running"
    /\ num_products = 0
    /\ \E w \in ShortWindows :
          start_date = w[1] /\ end_date = w[2] /\ current_date = w[1]
    /\ body_pc = "next"
    /\ products \in SampleCatalogs

InitExpenses ==
    /\ entry = "generate_expenses"
    /\ main_pc = "none"
    /\ fn = "expenses"
    /\ status = "running"
    /\ num_products = 0
    /\ \E w \in Windows :
          start_date = w[1] /\ end_date = w[2] /\ current_date = w[1]
    /\ body_pc = "next"
    /\ products = <<>>

InitMain ==
    /\ entry = "main"
    /\ main_pc = "makedirs"
    /\ fn = "idle"
    /\ status = "idle"
    /\ num_products = 0
    /\ start_date = DefaultStart /\ end_date = DefaultEnd
    /\ current_date = 0
    /\ body_pc = "none"
    /\ products = <<>>

Init ==
    /\ rng \in Seeds
    /\ fp_up \in BOOLEAN
    /\ calc = NoCalc
    /\ InitLocals
    /\ (InitProducts \/ InitTransactions \/ InitExpenses \/ InitMain)

---------------------------------------------------------------------------
(* Actions *)

args == <<entry, start_date, end_date, num_products, fp_up>>
io == <<dir_exists, files>>

\* an exception leaves the function and, uncaught, main
Propagate == IF entry = "main" THEN "failed" ELSE main_pc

(* generate_products: one iteration of its loop *)
ProductsStep ==
    /\ fn = "products" /\ status = "running"
    /\ i < num_products
    /\ products' = Append(products, ProductRecord(i, rng))
    /\ rng' = RngAt(rng, 6)
    /\ i' = i + 1
    /\ UNCHANGED <<args, io, main_pc, fn, status, current_date, body_pc, date,
                   yielded, transactions, expenses, sno, remaining, cat, calc>>

ProductsReturn ==
    /\ fn = "products" /\ status = "running"
    /\ i >= num_products
    /\ status' = "returned"
    /\ UNCHANGED <<args, io, main_pc, fn, current_date, body_pc, date, yielded,
                   products, transactions, expenses, sno, i, remaining, cat,
                   rng, calc>>

(* generate_dates, driven by the for-loop of the function that is executing *)
Consuming ==
    /\ fn \in {"transactions", "expenses"} /\ status = "running"
    /\ body_pc = "next"

\* the loop passes over a Sunday or a holiday
DatesSkip ==
    /\ Consuming
    /\ InRange(current_date, end_date)
    /\ ~IsBusinessDay(current_date)
    /\ current_date' = current_date + 1
    /\ UNCHANGED <<args, io, main_pc, fn, status, body_pc, date, yielded,
                   products, transactions, expenses, sno, i, remaining, cat,
                   rng, calc>>

\* yield current_date: the generator is suspended, the loop body starts
DatesYield ==
    /\ Consuming
    /\ InRange(current_date, end_date)
    /\ IsBusinessDay(current_date)
    /\ date' = current_date
    /\ yielded' = Append(yielded, current_date)
    /\ body_pc' = "day"
    /\ UNCHANGED <<args, io, main_pc, fn, status, current_date, products,
                   transactions, expenses, sno, i, remaining, cat, rng, calc>>

\* the while loop ends: the for-loop is over
DatesExhausted ==
    /\ Consuming
    /\ ~InRange(current_date, end_date)
    /\ body_pc' = "return"
    /\ UNCHANGED <<args, io, main_pc, fn, status, current_date, date, yielded,
                   products, transactions, expenses, sno, i, remaining, cat,
                   rng, calc>>

\* the loop body is over: the generator resumes after its yield
DatesResume ==
    /\ current_date' = current_date + 1
    /\ body_pc' = "next"

(* generate_transactions *)
TxDay ==
    /\ fn = "transactions" /\ status = "running" /\ body_pc = "day"
    /\ remaining' =
          DailyTransactions(date, Randint(DAILY_TRANSACTIONS_RANGE[1],
                                          DAILY_TRANSACTIONS_RANGE[2],
                                          RngAt(rng, 1)))
    /\ rng' = RngAt(rng, 1)
    /\ body_pc' = "inner"
    /\ UNCHANGED <<args, io, main_pc, fn, status, current_date, date, yielded,
                   products, transactions, expenses, sno, i, cat, calc>>

\* the dictionary appended to transactions, with its rounded amounts u and t
TransactionRecord(n, d, name, qty, u, t, r) ==
    [ S_No             |-> n,
      date             |-> Strftime(d),
      time             |-> FakeTime(RngAt(r, 4)),
      product_name     |-> name,
      quantity         |-> qty,
      unit_price       |-> u,
      total_amount     |-> t,
      payment_mode     |-> Choice(PaymentModes, RngAt(r, 5)),
      transaction_type |-> WeightedType(RngAt(r, 6)) ]

TxRecord ==
    /\ fn = "transactions" /\ status = "running" /\ body_pc = "inner"
    /\ remaining > 0
    /\ Len(products) > 0
    /\ LET product  == Choice(products, RngAt(rng, 1)).product_name
           mrp      == ProductData(products, product).mrp
           qty      == Randint(1, 5, RngAt(rng, 2))
           discount == Choice(Discounts, RngAt(rng, 3))
           u        == Rounded(UnitPrice(mrp, discount), fp_up)
           t        == Rounded(TotalAmount(mrp, qty, discount), fp_up)
       IN  transactions' =
               Append(transactions,
                      TransactionRecord(sno, date, product, qty, u, t, rng))
    /\ sno' = sno + 1
    /\ remaining' = remaining - 1
    /\ rng' = RngAt(rng, 6)
    /\ UNCHANGED <<args, io, main_pc, fn, status, current_date, body_pc, date,
                   yielded, products, expenses, i, cat, calc>>

\* variant: the empty catalog is passed over and the call returns
TxRaiseSwallowed ==
    /\ fn = "transactions" /\ status = "running" /\ body_pc = "inner"
    /\ remaining > 0
    /\ Len(products) = 0
    /\ status' = "returned"
    /\ UNCHANGED <<args, io, main_pc, fn, current_date, body_pc, date, yielded,
                   products, transactions, expenses, sno, i, remaining, cat,
                   rng, calc>>

\* random.choice of an empty list raises
TxRaise ==
    /\ fn = "transactions" /\ status = "running" /\ body_pc = "inner"
    /\ remaining > 0
    /\ Len(products) = 0
    /\ status' = "raised"
    /\ main_pc' = Propagate
    /\ UNCHANGED <<args, io, fn, current_date, body_pc, date, yielded, products,
                   transactions, expenses, sno, i, remaining, cat, rng, calc>>

\* the day's log line; the for-loop asks for the next date
TxDayEnd ==
    /\ fn = "transactions" /\ status = "running" /\ body_pc = "inner"
    /\ remaining = 0
    /\ DatesResume
    /\ UNCHANGED <<args, io, main_pc, fn, status, date, yielded, products,
                   transactions, expenses, sno, i, remaining, cat, rng, calc>>

TxReturn ==
    /\ fn = "transactions" /\ status = "running" /\ body_pc = "return"
    /\ status' = "returned"
    /\ UNCHANGED <<args, io, main_pc, fn, current_date, body_pc, date, yielded,
                   products, transactions, expenses, sno, i, remaining, cat,
                   rng, calc>>

(* generate_expenses *)
ExpDay ==
    /\ fn = "expenses" /\ status = "running" /\ body_pc = "day"
    /\ cat' = 1
    /\ body_pc' = "inner"
    /\ UNCHANGED <<args, io, main_pc, fn, status, current_date, date, yielded,
                   products, transactions, expenses, sno, i, remaining, rng,
                   calc>>

\* variant: sno += 1 outside the `if should_record`
ExpCategoryCountsSkipped ==
    /\ fn = "expenses" /\ status = "running" /\ body_pc = "inner"
    /\ cat <= Len(expense_categories)
    /\ LET c == expense_categories[cat]
       IN  IF ShouldRecord(c.frequency, date)
           THEN /\ expenses' =
                      Append(expenses, ExpenseRecord(sno, date, c, RngAt(rng, 1)))
                /\ rng' = RngAt(rng, 1)
           ELSE UNCHANGED <<expenses, rng>>
    /\ sno' = sno + 1
    /\ cat' = cat + 1
    /\ UNCHANGED <<args, io, main_pc, fn, status, current_date, body_pc, date,
                   yielded, products, transactions, i, remaining, calc>>

\* one iteration of the loop over expense_categories
ExpCategory ==
    /\ fn = "expenses" /\ status = "running" /\ body_pc = "inner"
    /\ cat <= Len(expense_categories)
    /\ LET c == expense_categories[cat]
       IN  IF ShouldRecord(c.frequency, date)
           THEN /\ expenses' =
                      Append(expenses, ExpenseRecord(sno, date, c, RngAt(rng, 1)))
                /\ rng' = RngAt(rng, 1)
                /\ sno' = sno + 1
           ELSE UNCHANGED <<expenses, rng, sno>>
    /\ cat' = cat + 1
    /\ UNCHANGED <<args, io, main_pc, fn, status, current_date, body_pc, date,
                   yielded, products, transactions, i, remaining, calc>>

ExpDayEnd ==
    /\ fn = "expenses" /\ status = "running" /\ body_pc = "inner"
    /\ cat > Len(expense_categories)
    /\ DatesResume
    /\ UNCHANGED <<args, io, main_pc, fn, status, date, yielded, products,
                   transactions, expenses, sno, i, remaining, cat, rng, calc>>

ExpReturn ==
    /\ fn = "expenses" /\ status = "running" /\ body_pc = "return"
    /\ status' = "returned"
    /\ UNCHANGED <<args, io, main_pc, fn, current_date, body_pc, date, yielded,
                   products, transactions, expenses, sno, i, remaining, cat,
                   rng, calc>>

---------------------------------------------------------------------------
(* main *)

\* variant: a failed write is swallowed and main goes on
ToCsvSwallowed(f, rows, next_pc) ==
    \/ /\ files' = [files EXCEPT ![f] = [state |-> "written", rows |-> rows]]
       /\ main_pc' = next_pc
    \/ /\ \E left \in {"absent", "partial"} :
             files' = [files EXCEPT ![f] = [state |-> left, rows |-> <<>>]]
       /\ main_pc' = next_pc

\* DataFrame.to_csv(path): the file is written whole, or the write raises and
\* leaves no file or a truncated one
ToCsv(f, rows, next_pc) ==
    \/ /\ files' = [files EXCEPT ![f] = [state |-> "written", rows |-> rows]]
       /\ main_pc' = next_pc
    \/ /\ \E left \in {"absent", "partial"} :
             files' = [files EXCEPT ![f] = [state |-> left, rows |-> <<>>]]
       /\ main_pc' = "failed"

\* os.makedirs(output_dir, exist_ok=True)
MainMakedirs ==
    /\ main_pc = "makedirs"
    /\ \/ dir_exists' = TRUE /\ main_pc' = "call_products"
       \/ dir_exists' = dir_exists /\ main_pc' = "failed"
    /\ UNCHANGED <<args, files, fn, status, current_date, body_pc, date, yielded,
                   products, transactions, expenses, sno, i, remaining, cat,
                   rng, calc>>

\* products = generate_products(NUM_PRODUCTS)
MainGenerateProducts ==
    /\ main_pc = "call_products"
    /\ main_pc' = "gen_products"
    /\ fn' = "products" /\ status' = "running"
    /\ num_products' = NUM_PRODUCTS
    /\ products' = <<>>
    /\ i' = 0
    /\ UNCHANGED <<entry, start_date, end_date, fp_up, io, current_date,
                   body_pc, date, yielded, transactions, expenses, sno,
                   remaining, cat, rng, calc>>

\* variant: the catalog is not written before the transactions are generated
MainWriteProductsSkipped ==
    /\ main_pc = "gen_products" /\ status = "returned"
    /\ main_pc' = "call_transactions"
    /\ fn' = "idle" /\ status' = "idle"
    /\ UNCHANGED <<args, io, current_date, body_pc, date, yielded, products,
                   transactions, expenses, sno, i, remaining, cat, rng, calc>>

\* products.to_csv(...)
MainWriteProducts ==
    /\ main_pc = "gen_products" /\ status = "returned"
    /\ ToCsv("products.csv", products, "call_transactions")
    /\ fn' = "idle" /\ status' = "idle"
    /\ UNCHANGED <<args, dir_exists, current_date, body_pc, date, yielded,
                   products, transactions, expenses, sno, i, remaining, cat,
                   rng, calc>>

\* transactions = generate_transactions(start_date, end_date, products)
MainGenerateTransactions ==
    /\ main_pc = "call_transactions"
    /\ main_pc' = "gen_transactions"
    /\ fn' = "transactions" /\ status' = "running"
    /\ transactions' = <<>>
    /\ sno' = 1
    /\ current_date' = start_date
    /\ yielded' = <<>>
    /\ body_pc' = "next"
    /\ UNCHANGED <<args, io, date, products, expenses, i, remaining, cat, rng,
                   calc>>

\* transactions.to_csv(...)
MainWriteTransactions ==
    /\ main_pc = "gen_transactions" /\ status = "returned"
    /\ ToCsv("transactions.csv", transactions, "call_expenses")
    /\ fn' = "idle" /\ status' = "idle"
    /\ UNCHANGED <<args, dir_exists, current_date, body_pc, date, yielded,
                   products, transactions, expenses, sno, i, remaining, cat,
                   rng, calc>>

\* expenses = generate_expenses(start_date, end_date)
MainGenerateExpenses ==
    /\ main_pc = "call_expenses"
    /\ main_pc' = "gen_expenses"
    /\ fn' = "expenses" /\ status' = "running"
    /\ expenses' = <<>>
    /\ sno' = 1
    /\ current_date' = start_date
    /\ yielded' = <<>>
    /\ body_pc' = "next"
    /\ UNCHANGED <<args, io, date, products, transactions, i, remaining, cat,
                   rng, calc>>

\* expenses.to_csv(...), then the last log line
MainWriteExpenses ==
    /\ main_pc = "gen_expenses" /\ status = "returned"
    /\ ToCsv("expenses.csv", expenses, "done")
    /\ fn' = "idle" /\ status' = "idle"
    /\ UNCHANGED <<args, dir_exists, current_date, body_pc, date, yielded,
                   products, transactions, expenses, sno, i, remaining, cat,
                   rng, calc>>

---------------------------------------------------------------------------
(* The specification of the four functions *)

Next ==
    \/ ProductsStep
    \/ ProductsReturn
    \/ DatesSkip
    \/ DatesYield
    \/ DatesExhausted
    \/ TxDay
    \/ TxRecord
    \/ TxRaise
    \/ TxDayEnd
    \/ TxReturn
    \/ ExpDay
    \/ ExpCategory
    \/ ExpDayEnd
    \/ ExpReturn
    \/ MainMakedirs
    \/ MainGenerateProducts
    \/ MainWriteProducts
    \/ MainGenerateTransactions
    \/ MainWriteTransactions
    \/ MainGenerateExpenses
    \/ MainWriteExpenses

Spec == Init /\ [][Next]_vars

---------------------------------------------------------------------------
(* The price fields of a transaction record, for every input *)

\* lower end of random.uniform(10, 500), in paise
MrpBase == 1000

\* the inputs of one record: a two-decimal MRP in paise, a quantity drawn by
\* randint(1, 5) and a discount drawn from Discounts
InitPrice ==
    /\ rng = 0
    /\ fp_up = FALSE
    /\ InitLocals
    /\ entry = "price"
    /\ main_pc = "none"
    /\ fn = "idle"
    /\ status = "idle"
    /\ num_products = 0
    /\ start_date = 0 /\ end_date = 0 /\ current_date = 0
    /\ body_pc = "none"
    /\ products = <<>>
    /\ \E m \in MrpBase .. (MrpBase + MrpSpan), q \in 1 .. 5,
          k \in 1 .. Len(Discounts) :
          calc = [ state |-> "input", mrp |-> m, quantity |-> q,
                   discount |-> Discounts[k], unit_price |-> 0,
                   total_amount |-> 0 ]

\* the two amounts of the record, as generate_transactions computes them
PriceRecord ==
    /\ calc.state = "input"
    /\ \E p \in PriceFields(calc.mrp, calc.quantity, calc.discount) :
          calc' = [calc EXCEPT !.state = "record", !.unit_price = p[1],
                               !.total_amount = p[2]]
    /\ UNCHANGED <<args, io, main_pc, fn, status, current_date, body_pc, date,
                   yielded, products, transactions, expenses, sno, i, remaining,
                   cat, rng>>

NextPrice == PriceRecord

SpecPrice == InitPrice /\ [][NextPrice]_vars

---------------------------------------------------------------------------
(* Vocabulary of the properties *)

\* a '%d-%m-%Y' text that names a day of the calendar
ValidDate(t) ==
    /\ t[2] \in 1 .. 12
    /\ t[1] \in 1 .. DaysInMonth(t[3], t[2])

\* the date a '%d-%m-%Y' text denotes
Strptime(t) == Datetime(t[3], t[2], t[1])

\* a business day of a window, stated without the generator
BusinessDay(d, first, last) ==
    /\ first <= d /\ d <= last
    /\ Weekday(d) # 6
    /\ d \notin holidays

BusinessDays(first, last) == { d \in first .. last : BusinessDay(d, first, last) }

Elements(seq) == { seq[k] : k \in 1 .. Len(seq) }

\* positions of the expense records of one category
RecordsOf(category) ==
    { k \in 1 .. Len(expenses) : expenses[k].category = category }

CategoriesOf(frequency) ==
    { expense_categories[k].category :
        k \in { j \in 1 .. Len(expense_categories) :
                  expense_categories[j].frequency = frequency } }

\* generate_expenses has run through its window
ExpensesComplete == fn = "expenses" /\ body_pc = "return"

InDefaultWindow == start_date = DefaultStart /\ end_date = DefaultEnd

---------------------------------------------------------------------------
(* C1 *)

\* C1: generate_dates(start, end) emits exactly the dates of [start, end] that
\* are neither a Sunday nor a holiday: nothing excluded is emitted, nothing
\* else that the scan has passed is missing, the sequence is strictly
\* ascending, and it is empty when end is before start.
C1_DatesExact ==
    /\ \A k \in 1 .. Len(yielded) :
          /\ start_date <= yielded[k] /\ yielded[k] <= end_date
          /\ Weekday(yielded[k]) # 6
          /\ yielded[k] \notin holidays
    /\ \A k \in 1 .. (Len(yielded) - 1) : yielded[k] < yielded[k + 1]
    /\ (fn \in {"transactions", "expenses"}) =>
          /\ \A d \in BusinessDays(start_date, end_date) :
                (d < current_date) => (d \in Elements(yielded))
          /\ (body_pc = "return") =>
                (Elements(yielded) = BusinessDays(start_date, end_date))
    /\ (end_date < start_date) => (yielded = <<>>)

\* a finished scan of a window that holds a Sunday and a holiday
C1_Witness ==
    /\ fn \in {"transactions", "expenses"}
    /\ body_pc = "return"
    /\ Len(yielded) >= 5
    /\ \E d \in start_date .. end_date : Weekday(d) = 6
    /\ \E d \in start_date .. end_date : d \in holidays

---------------------------------------------------------------------------
(* C2, C3, C4 *)

\* the calendar months that lie wholly inside the window
MonthsCovered ==
    { ym \in { <<YearOf(d), MonthOf(d)>> : d \in start_date .. end_date } :
        /\ start_date <= Datetime(ym[1], ym[2], 1)
        /\ Datetime(ym[1], ym[2], DaysInMonth(ym[1], ym[2])) <= end_date }

\* the Mondays whose week (Monday to Sunday) lies wholly inside the window
WeeksCovered ==
    { d \in start_date .. end_date : Weekday(d) = 0 /\ d + 6 <= end_date }

\* C2: when generate_expenses has finished, every monthly category has exactly
\* one record in every calendar month of the window, dated the first of it.
C2_MonthlyEveryMonth ==
    ExpensesComplete =>
        \A c \in CategoriesOf("monthly") : \A ym \in MonthsCovered :
            LET inMonth == { k \in RecordsOf(c) :
                               /\ expenses[k].date[3] = ym[1]
                               /\ expenses[k].date[2] = ym[2] }
            IN  /\ Cardinality(inMonth) = 1
                /\ \A k \in inMonth : expenses[k].date[1] = 1

\* C3: when generate_expenses has finished, every weekly category has exactly
\* one record in every week of the window, dated the Monday of it.
C3_WeeklyEveryWeek ==
    ExpensesComplete =>
        \A c \in CategoriesOf("weekly") : \A monday \in WeeksCovered :
            LET inWeek == { k \in RecordsOf(c) :
                              /\ monday <= Strptime(expenses[k].date)
                              /\ Strptime(expenses[k].date) <= monday + 6 }
            IN  /\ Cardinality(inWeek) = 1
                /\ \A k \in inWeek : expenses[k].date = Strftime(monday)

\* C4: over 1 Jan 2024 .. 31 Mar 2024 generate_expenses emits 'Rent' exactly
\* three times, on 1 Jan, 1 Feb and 1 Mar, and 'Transportation' exactly once
\* on every business day of the window and on no other date.
C4_DefaultWindowExpenses ==
    (ExpensesComplete /\ InDefaultWindow) =>
        /\ LET rent == SelectSeq(expenses, LAMBDA e : e.category = "Rent")
           IN  [ k \in 1 .. Len(rent) |-> rent[k].date ]
                 = << <<1, 1, 2024>>, <<1, 2, 2024>>, <<1, 3, 2024>> >>
        /\ \A d \in start_date .. end_date :
              Cardinality({ k \in RecordsOf("Transportation") :
                              expenses[k].date = Strftime(d) })
                = IF Weekday(d) # 6 /\ d \notin holidays THEN 1 ELSE 0
        /\ \A k \in RecordsOf("Transportation") :
              \E d \in start_date .. end_date : expenses[k].date = Strftime(d)

\* main has generated the expenses of its window
C4_Witness ==
    /\ entry = "main"
    /\ ExpensesComplete /\ InDefaultWindow
    /\ status = "returned"
    /\ Cardinality(RecordsOf("Transportation")) > 70

---------------------------------------------------------------------------
(* C5 *)

\* C5: in every transaction record, for every two-decimal MRP, every quantity
\* in 1..5 and every discount tier, unit_price is at most the MRP and
\* total_amount equals unit_price times quantity, as two-decimal amounts.
C5_PriceExact ==
    (calc.state = "record") =>
        /\ calc.unit_price <= calc.mrp
        /\ calc.total_amount = calc.unit_price * calc.quantity

---------------------------------------------------------------------------
(* C6, C7 *)

\* C6: at every point of the generation, every transaction record and every
\* expense record is dated on a business day of the window of the call.
C6_DatesAreBusinessDays ==
    /\ \A k \in 1 .. Len(transactions) :
          /\ BusinessDay(Strptime(transactions[k].date), start_date, end_date)
          /\ ValidDate(transactions[k].date)
    /\ \A k \in 1 .. Len(expenses) :
          /\ BusinessDay(Strptime(expenses[k].date), start_date, end_date)
          /\ ValidDate(expenses[k].date)

\* main is generating expenses after the transactions, over a window with
\* Sundays and holidays
C6_Witness ==
    /\ entry = "main" /\ fn = "expenses"
    /\ Len(transactions) > 0 /\ Len(expenses) > 0
    /\ \E d \in start_date .. end_date : d \in holidays

\* C7: in each record set the k-th record emitted carries S.No k: the numbers
\* start at 1 and grow by exactly 1, so the last S.No is the number of records.
C7_SequenceNumbers ==
    /\ (entry \in {"generate_products", "main"}) =>
          \A k \in 1 .. Len(products) : products[k].S_No = k
    /\ \A k \in 1 .. Len(transactions) : transactions[k].S_No = k
    /\ \A k \in 1 .. Len(expenses) : expenses[k].S_No = k

\* expenses of a second day are being emitted after a day on which categories
\* were skipped, with the other two record sets filled
C7_Witness ==
    /\ entry = "main" /\ fn = "expenses"
    /\ Len(yielded) >= 2
    /\ Len(expenses) > 3 /\ Len(expenses) < 10 * Len(yielded)
    /\ Len(products) > 0 /\ Len(transactions) > 0

---------------------------------------------------------------------------
(* C8 *)

EmptyCatalogCall == entry = "generate_transactions" /\ products = <<>>

\* C8 as stated: a call with an empty catalog never returns, whatever the
\* window.
C8_EmptyCatalogAlwaysFails ==
    EmptyCatalogCall => (status # "returned")

\* C8, amended: a call with an empty catalog emits no record; it raises at the
\* first product choice of the first business day of the window, and returns
\* (an empty set) only when the window holds no business day.
C8_EmptyCatalogFailsOnFirstBusinessDay ==
    EmptyCatalogCall =>
        /\ transactions = <<>>
        /\ (status = "returned") => (BusinessDays(start_date, end_date) = {})
        /\ (status = "raised") =>
              /\ Len(yielded) = 1
              /\ yielded[1] \in BusinessDays(start_date, end_date)
              /\ \A d \in BusinessDays(start_date, end_date) : yielded[1] <= d
        /\ (status = "running") => ENABLED Next

\* the call has raised
C8_Witness ==
    /\ EmptyCatalogCall
    /\ status = "raised"
    /\ BusinessDays(start_date, end_date) # {}

---------------------------------------------------------------------------
(* C9, C10 *)

\* the artifacts in the order main writes them
Artifacts == <<"products.csv", "transactions.csv", "expenses.csv">>

Written(f) == files[f].state = "written"
Touched(f) == files[f].state # "absent"

ProductNames(rows) == { rows[k].product_name : k \in 1 .. Len(rows) }

C9_StagesInOrder ==
    (entry = "main") =>
        /\ (\E k \in 1 .. 3 : Touched(Artifacts[k])) => dir_exists
        /\ (fn = "products") => (\A k \in 1 .. 3 : ~Touched(Artifacts[k]))
        /\ (fn = "transactions") =>
              /\ Written("products.csv")
              /\ files["products.csv"].rows = products
              /\ Len(products) = NUM_PRODUCTS
              /\ ~Touched("transactions.csv") /\ ~Touched("expenses.csv")
        /\ Touched("transactions.csv") => Written("products.csv")
        /\ Written("transactions.csv") =>
              (ProductNames(files["transactions.csv"].rows)
                 \subseteq ProductNames(files["products.csv"].rows))
        /\ (fn = "expenses") =>
              /\ Written("transactions.csv")
              /\ files["transactions.csv"].rows = transactions
              /\ ~Touched("expenses.csv")
        /\ Touched("expenses.csv") => Written("transactions.csv")
        /\ (main_pc = "done") =>
              /\ \A k \in 1 .. 3 : Written(Artifacts[k])
              /\ files["expenses.csv"].rows = expenses
        /\ (main_pc = "failed") => (status # "running")

\* C9: in every run of main the directory exists before any artifact is
\* written; the catalog is generated and written, then the transactions are
\* generated from that catalog and written, then the expenses are generated and
\* written; and once a stage has failed nothing happens any more.
C9_OrderAndAbort ==
    /\ []C9_StagesInOrder
    /\ [][(main_pc = "failed") => UNCHANGED vars]_vars

\* a run of main that wrote its three artifacts
C9_Witness ==
    /\ entry = "main" /\ main_pc = "done"
    /\ \A k \in 1 .. 3 : Written(Artifacts[k])
    /\ Len(files["transactions.csv"].rows) > 0

MainEnded == entry = "main" /\ main_pc \in {"done", "failed"}

\* C10 as stated: a run of main ends with all three artifacts written or with
\* none of them written.
C10_AllOrNothing ==
    MainEnded =>
        \/ \A k \in 1 .. 3 : Written(Artifacts[k])
        \/ \A k \in 1 .. 3 : ~Written(Artifacts[k])

\* C10, amended: a run of main ends with all three artifacts written, or,
\* after a failure, with exactly the artifacts of the stages before the failing
\* one written: those stay, the failing one is missing or truncated, and the
\* later ones are absent.
C10_WrittenPrefixRemains ==
    MainEnded =>
        \/ /\ main_pc = "done"
           /\ \A k \in 1 .. 3 : Written(Artifacts[k])
        \/ /\ main_pc = "failed"
           /\ \E n \in 0 .. 2 :
                 /\ \A k \in 1 .. n : Written(Artifacts[k])
                 /\ ~Written(Artifacts[n + 1])
                 /\ \A k \in (n + 2) .. 3 : ~Touched(Artifacts[k])

\* the write of transactions.csv failed after products.csv was written
C10_Witness ==
    /\ entry = "main" /\ main_pc = "failed"
    /\ Written("products.csv")
    /\ files["transactions.csv"].state = "partial"

====
